---- MODULE Spec2Model ----
(***************************************************************************)
(* Docubot: the hybrid retriever (query_processor.py), the agentic         *)
(* workflow (agents/workflow.py, agents/research_agent.py) and the          *)
(* process_query entry point that drives them.                              *)
(*                                                                          *)
(* Two specifications:                                                      *)
(*   RetrSpec  EnhancedHybridRetriever as a function of what the sources    *)
(*             return; the source outcomes are kept in the state.           *)
(*   Spec      one process_query call: retrieval, the LangGraph workflow    *)
(*             check_relevance -> research -> verify -> ..., and the        *)
(*             result handed back to the caller.                            *)
(***************************************************************************)
EXTENDS Integers, Sequences, FiniteSets, TLC

\* ------------------------------------------------------------------------
\* Bounds of the model
\* ------------------------------------------------------------------------
\* longest ranked list a source returns for the first query variant (RetrSpec);
\* for the second variant a source returns at most one document
MaxResults == 2
\* longest ranked list a source returns inside a process_query run (Spec)
MaxRunResults == 1
\* number of LangGraph super-steps after which invoke() gives up
\* (GraphRecursionError); the library's configured limit, kept small here
RecursionLimit == 9

MaxSubmits == 3

MaxAdds == 6

MaxBuilds == 2

\* ------------------------------------------------------------------------
\* Text
\* ------------------------------------------------------------------------
Min(a, b) == IF a < b THEN a ELSE b

\* str.lower(), character by character
LowerChar(c) == IF c = "A" THEN "a" ELSE IF c = "B" THEN "b" ELSE c

Lower(s) == [i \in 1..Len(s) |-> LowerChar(s[i])]

\* the spec's normalisation of a passage: case folded, whitespace removed
RECURSIVE DropSpaces(_)
DropSpaces(s) == IF s = <<>> THEN <<>> ELSE IF Head(s) = " " THEN DropSpaces(Tail(s)) ELSE <<Head(s)>> \o DropSpaces(Tail(s))

Normalize(s) == DropSpaces(Lower(s))

\* page_content[:300]
PrefixLen == 300

Prefix(s) == SubSeq(s, 1, Min(Len(s), PrefixLen))

\* hash(page_content[:300]): equal prefixes hash equally; distinct prefixes
\* are taken to hash differently (64-bit hash)
content_hash(doc) == Prefix(doc.page_content)

\* ------------------------------------------------------------------------
\* Documents and what a source can answer
\* ------------------------------------------------------------------------
HeaderText == <<"t", "o", "p", "i", "c", " ", "h", "e", "a", "d", ":">>

Doc(c, s) == [page_content |-> c, source |-> s]

Docs == {Doc(<<"a">>, "doc1"), Doc(<<"A">>, "doc1"), Doc(<<"a">>, "doc2")}

RunDocs == {Doc(<<"a">>, "doc1"), Doc(HeaderText, "doc2")}

SeqsUpTo(S, n) == UNION {[1..k -> S] : k \in 0..n}

\* a source either raises or returns a ranked list
FAIL == [ok |-> FALSE, docs |-> <<>>]

Returned(l) == [ok |-> TRUE, docs |-> l]

Outcomes(D, n) == {Returned(l) : l \in SeqsUpTo(D, n)} \cup {FAIL}

\* a ranked list of n passages with pairwise different contents
Digits == <<"1", "2", "3", "4", "5", "6", "7", "8", "9">>

LongList(n) == [i \in 1..n |-> Doc(<<Digits[i]>>, "doc3")]

\* ------------------------------------------------------------------------
\* EnhancedHybridRetriever
\* ------------------------------------------------------------------------
\* queries_to_try, as the number of query variants that are actually tried
\* (queries_to_try[:2])
IntentTypes == {"general", "follow_up_examples", "follow_up_code", "document_metadata"}

queries_to_try(intent_type, has_context) ==
  IF intent_type = "follow_up_examples" /\ has_context THEN <<"query", "examples">>
  ELSE IF intent_type = "follow_up_code" THEN <<"query", "code">>
  ELSE IF intent_type = "document_metadata" THEN <<"toc", "structure", "topics">>
  ELSE <<"query">>

VariantsTried(intent_type, has_context) == SubSeq(queries_to_try(intent_type, has_context), 1, Min(2, Len(queries_to_try(intent_type, has_context))))

\* _retrieve_with_variant: the retrievers in list order; a retriever that
\* raises is skipped; the loop stops once 5 documents have been collected.
\* out[r] is what retriever r answers to this variant.
VariantEnough == 5

RECURSIVE retrieve_loop(_, _, _, _)
retrieve_loop(retrievers, out, i, docs) ==
  IF i > Len(retrievers) THEN docs
  ELSE IF ~out[retrievers[i]].ok THEN retrieve_loop(retrievers, out, i + 1, docs)
  ELSE IF Len(docs \o out[retrievers[i]].docs) >= VariantEnough THEN docs \o out[retrievers[i]].docs
  ELSE retrieve_loop(retrievers, out, i + 1, docs \o out[retrievers[i]].docs)

MutAbortOnFailure(retrievers, out) ==
  IF \E i \in 1..Len(retrievers) : ~out[retrievers[i]].ok THEN <<>> ELSE retrieve_loop(retrievers, out, 1, <<>>)

_retrieve_with_variant(retrievers, out) == retrieve_loop(retrievers, out, 1, <<>>)

\* the retrievers on which retriever.invoke is called for one variant
RECURSIVE invoked_loop(_, _, _, _)
MutNoBreak(retrievers, out, i, docs) ==
  IF i > Len(retrievers) THEN {} ELSE {retrievers[i]} \cup invoked_loop(retrievers, out, i + 1, docs)

invoked_loop(retrievers, out, i, docs) ==
  IF i > Len(retrievers) THEN {}
  ELSE IF ~out[retrievers[i]].ok THEN {retrievers[i]} \cup invoked_loop(retrievers, out, i + 1, docs)
  ELSE IF Len(docs \o out[retrievers[i]].docs) >= VariantEnough THEN {retrievers[i]}
  ELSE {retrievers[i]} \cup invoked_loop(retrievers, out, i + 1, docs \o out[retrievers[i]].docs)

\* try: retriever.invoke(...) / except Exception: continue -- whether the
\* outcome o of one retriever call leaves _retrieve_with_variant as an
\* exception
MutUncaught(o) == ~o.ok

escapes(o) == FALSE

\* the inner loop of _get_relevant_documents: keep a document unless its
\* content hash has been seen.  acc = <<all_docs, seen_content>>
MutDedupNone(acc, doc) == <<Append(acc[1], doc), acc[2] \cup {content_hash(doc)}>>

DedupAdd(acc, doc) ==
  IF content_hash(doc) \notin acc[2] THEN <<Append(acc[1], doc), acc[2] \cup {content_hash(doc)}>> ELSE acc

RECURSIVE dedup_loop(_, _)
dedup_loop(acc, variant_docs) ==
  IF variant_docs = <<>> THEN acc ELSE dedup_loop(DedupAdd(acc, Head(variant_docs)), Tail(variant_docs))

AllEnough == 8

RECURSIVE variant_loop(_, _, _, _)
variant_loop(retrievers, outs, v, acc) ==
  IF v > Len(outs) THEN acc
  ELSE IF Len(dedup_loop(acc, _retrieve_with_variant(retrievers, outs[v]))[1]) >= AllEnough
       THEN dedup_loop(acc, _retrieve_with_variant(retrievers, outs[v]))
  ELSE variant_loop(retrievers, outs, v + 1, dedup_loop(acc, _retrieve_with_variant(retrievers, outs[v])))

\* _get_relevant_documents: outs[v][r] is the outcome of retriever r on the
\* v-th query variant tried; the result is all_docs[:8]
MutNoCut(retrievers, outs) == variant_loop(retrievers, outs, 1, <<<<>>, {}>>)[1]

_get_relevant_documents(retrievers, outs) ==
  SubSeq(variant_loop(retrievers, outs, 1, <<<<>>, {}>>)[1], 1, Min(AllEnough, Len(variant_loop(retrievers, outs, 1, <<<<>>, {}>>)[1])))

\* the query variants that are tried: the loop over queries_to_try[:2] stops
\* after the variant that brought all_docs to 8
RECURSIVE variants_run(_, _, _, _)
variants_run(retrievers, outs, v, acc) ==
  IF v > Len(outs) THEN {}
  ELSE IF Len(dedup_loop(acc, _retrieve_with_variant(retrievers, outs[v]))[1]) >= AllEnough THEN {v}
  ELSE {v} \cup variants_run(retrievers, outs, v + 1, dedup_loop(acc, _retrieve_with_variant(retrievers, outs[v])))

\* the calls <<variant, retriever>> issued by one _get_relevant_documents
source_calls(retrievers, outs) ==
  {<<v, r>> \in (1..Len(outs)) \X {retrievers[i] : i \in 1..Len(retrievers)} :
     v \in variants_run(retrievers, outs, 1, <<<<>>, {}>>) /\ r \in invoked_loop(retrievers, outs[v], 1, <<>>)}

\* whether the call ends with an exception instead of a list
raises(retrievers, outs) == \E c \in source_calls(retrievers, outs) : escapes(outs[c[1]][c[2]])

\* every retriever.invoke issued by the call raised
every_call_raised(retrievers, outs) == \A c \in source_calls(retrievers, outs) : ~outs[c[1]][c[2]].ok

\* process_query builds the retrievers list: BM25 first when it exists,
\* then the vector retriever
RetrieverLists == {<<"bm25", "vector">>, <<"vector">>}

\* every combination of outcomes of the listed retrievers on nv variants
Worlds(retrievers, nv, D, n) ==
  {w \in [1..nv -> [{retrievers[i] : i \in 1..Len(retrievers)} -> Outcomes(D, n)]] :
     nv = 2 => \A r \in DOMAIN w[2] : w[2][r] \in Outcomes(D, 1)}

\* RetrSpec also lets a source answer the first variant with a list long
\* enough to end the retriever loop (5) or to be cut (9 > 8)
LongOutcomes == {Returned(LongList(VariantEnough)), Returned(LongList(AllEnough + 1))}

RetrWorlds(retrievers, nv) ==
  {w \in [1..nv -> [{retrievers[i] : i \in 1..Len(retrievers)} -> Outcomes(Docs, MaxResults) \cup LongOutcomes]] :
     nv = 2 => \A r \in DOMAIN w[2] : w[2][r] \in Outcomes(Docs, 1)}

\* ------------------------------------------------------------------------
\* State
\* ------------------------------------------------------------------------
VARIABLES
  \* RetrSpec: one call of EnhancedHybridRetriever._get_relevant_documents
  r_pc,            \* "call" before the call, "done" after it
  r_retrievers,    \* self.retrievers
  r_outs,          \* r_outs[v][r]: outcome of retriever r on the v-th variant
  r_fused,         \* the returned list
  r_raised,        \* the call raised instead of returning
  r_calls,         \* the <<variant, retriever>> calls the call issued
  \* Spec: one call of GeneralizedQueryProcessor.process_query
  pc,              \* position in process_query / full_pipeline / the graph
  query,           \* the query argument
  intent_type,     \* intent["type"] of the query
  use_agentic,     \* the use_agentic argument
  retrievers,      \* the retrievers list built by process_query
  history,         \* conversation_manager.history
  docs,            \* process_query's docs
  documents,       \* AgentState.documents
  draft_answer,    \* AgentState.draft_answer
  verification_report, \* AgentState.verification_report
  is_relevant,     \* AgentState.is_relevant
  steps,           \* graph super-steps executed by compiled_workflow.invoke
  answer,          \* process_query's local answer
  report_out,      \* process_query's local verification_report
  pipeline_result, \* what full_pipeline returned
  result,          \* what process_query returned
  \* history variables (observe the run, never read by it)
  classification,  \* what relevance_checker.check returned
  relevance_calls, \* calls of relevance_checker.check
  research_calls,  \* calls of researcher.generate
  verify_calls,    \* calls of verifier.check
  last_node,       \* the graph node executed last
  supported_no,    \* verifications whose report stated Supported: NO
  last_generated,  \* the draft returned by the latest researcher.generate
  error_stage,     \* the stage whose capability raised
  retrieval_calls, \* calls of retriever.invoke by process_query and full_pipeline
  retrieval_failed, \* every source call of every retrieval so far raised
  research_input,  \* the documents handed to the latest researcher.generate
  llm_calls,       \* calls of the researcher's self.llm.invoke
  prompt_context,  \* the context put into the researcher's latest prompt
  \* ChatSpec: the chat page of app.py (st.session_state)
  messages,        \* session_state.messages
  source_docs,     \* session_state.source_docs, keyed by 0-based message index
  verification_reports, \* session_state.verification_reports, same keys
  last_processed_query, \* session_state.last_processed_query
  vector_store_exists,  \* session_state.vector_store_exists
  submissions,     \* prompts submitted to st.chat_input so far
  submitted,       \* the prompt submitted last
  pq_calls,        \* calls of process_query made by the chat handler
  ignored,         \* submitted prompts the duplicate guard turned away
  \* ConvSpec: a ConversationManager (its history is the variable history)
  added,           \* the interactions added since the last clear_history
  adds,            \* add_interaction calls so far
  \* StoreSpec: build_vector_store_from_pdfs on a user's stored data
  collection,      \* the user's Qdrant collection
  file_uploads,    \* the user's upload records in MongoDB
  build_result,    \* what the latest build returned
  build_append,    \* the append argument of the latest build
  build_before,    \* collection and upload records when the latest build started
  builds           \* builds so far

rvars == <<r_pc, r_retrievers, r_outs, r_fused, r_raised, r_calls>>

pvars == <<pc, query, intent_type, use_agentic, retrievers, history, docs, documents, draft_answer, verification_report, is_relevant, steps, answer, report_out, pipeline_result, result>>

hvars == <<classification, relevance_calls, research_calls, verify_calls, last_node, supported_no, last_generated, error_stage>>

ovars == <<retrieval_calls, retrieval_failed, research_input>>

gvars == <<llm_calls, prompt_context>>

uvars == <<messages, source_docs, verification_reports, last_processed_query, vector_store_exists, submissions, submitted, pq_calls, ignored>>

\* the components outside the retriever and the process_query run
kvars == <<added, adds>>

svars == <<collection, file_uploads, build_result, build_append, build_before, builds>>

xvars == <<uvars, kvars, svars>>

vars == <<rvars, pvars, hvars, ovars, gvars, xvars>>

NONE == "NONE"

UNBOUND == "UNBOUND"

\* ------------------------------------------------------------------------
\* Text of answers and verification reports
\* ------------------------------------------------------------------------
FallbackAnswer == "This question is not related to the uploaded document(s), or there is insufficient information to answer it."

CannotAnswer == "I cannot answer this question."

HelpfulAnswer == "While I don't have specific information about the query, your documents cover related topics"

OverviewAnswer == "## Document Overview"

\* what the language model may return as response.content
LLMContents == {"", " d1 ", "I Don't Have details"}

\* str.strip() on the answers above
sanitize_response(t) == IF t = " d1 " THEN "d1" ELSE t

\* str.lower() on the answers above
LowerText(t) ==
  IF t = "I Don't Have details" THEN "i don't have details"
  ELSE IF t = HelpfulAnswer THEN "while i don't have specific information about the query, your documents cover related topics"
  ELSE IF t = FallbackAnswer THEN "this question is not related to the uploaded document(s), or there is insufficient information to answer it."
  ELSE IF t = CannotAnswer THEN "i cannot answer this question."
  ELSE IF t = OverviewAnswer THEN "## document overview"
  ELSE t

\* "don't have" in answer.lower()
HasDontHave(t) ==
  LowerText(t) \in {"i don't have details", "while i don't have specific information about the query, your documents cover related topics"}

\* a verification report is a sequence of lines
SupportedLines == {"Supported: YES", "Supported: NO", "Supported: UNCLEAR"}

RelevantLines == {"Relevant: YES", "Relevant: NO"}

Reports == {<<>>} \cup {<<s, r>> : s \in SupportedLines, r \in RelevantLines}

\* needle in line, for the two needles the workflow looks for
LineContains(line, needle) == line = needle

\* needle in report (no needle spans a line break)
InReport(needle, report) == \E i \in 1..Len(report) : LineContains(report[i], needle)

\* parse_verification_report (app.py): the tests it makes on one line.
\* "Supported:" in line, "Relevant:" in line, "YES" in line.upper()
HasSupportedKey(line) == line \in SupportedLines

HasRelevantKey(line) == line \in RelevantLines

UpperHasYes(line) == line \in {"Supported: YES", "Relevant: YES"}

\* one pass of the loop over the lines; parsed holds the two verdict fields
parse_line(parsed, line) ==
  IF HasSupportedKey(line) THEN [parsed EXCEPT !.supported = IF UpperHasYes(line) THEN "YES" ELSE "NO"]
  ELSE IF HasRelevantKey(line) THEN [parsed EXCEPT !.relevant = IF UpperHasYes(line) THEN "YES" ELSE "NO"]
  ELSE parsed

RECURSIVE parse_lines(_, _)
parse_lines(parsed, lines) ==
  IF lines = <<>> THEN parsed ELSE parse_lines(parse_line(parsed, Head(lines)), Tail(lines))

\* an empty report gives {}: no verdict fields at all
EmptyParsed == [supported |-> "ABSENT", relevant |-> "ABSENT"]

parse_verification_report(report_text) ==
  IF report_text = <<>> THEN EmptyParsed ELSE parse_lines([supported |-> "Unknown", relevant |-> "Unknown"], report_text)

\* ------------------------------------------------------------------------
\* The workflow's decision functions (agents/workflow.py)
\* ------------------------------------------------------------------------
RelevantLabels == {"CAN_ANSWER", "PARTIAL"}

\* what relevance_checker.check may return: the three categories and a
\* label outside them
Classifications == {"CAN_ANSWER", "PARTIAL", "NOT_RELEVANT", "NO_MATCH"}

MutRelevantUnlessNotRelevant(c, draft) ==
  IF c # "NOT_RELEVANT" THEN [is_relevant |-> TRUE, draft_answer |-> draft]
  ELSE [is_relevant |-> FALSE, draft_answer |-> FallbackAnswer]

\* _check_relevance_step: the update it returns, applied to the state
_check_relevance_step(c, draft) ==
  IF c \in RelevantLabels THEN [is_relevant |-> TRUE, draft_answer |-> draft]
  ELSE [is_relevant |-> FALSE, draft_answer |-> FallbackAnswer]

MutAlwaysRelevant(rel) == "relevant"

_decide_after_relevance_check(rel) == IF rel THEN "relevant" ELSE "irrelevant"

\* _research_step hands state["documents"] to researcher.generate
MutNoDocuments(state_documents) == <<>>

research_documents(state_documents) == state_documents

MutKeepFirstDraft(old, generated) == IF old = "" THEN generated ELSE old

\* _research_step: draft_answer is overwritten by the generated draft
_research_step(old, generated) == generated

\* a node returns a dict; the graph writes the keys of the dict into the
\* AgentState and leaves every other field as it is
merge(update, key, old) == IF key \in DOMAIN update THEN update[key] ELSE old

\* the dict returned by _research_step
MutResearchDropsDocuments(old, generated) == [draft_answer |-> generated, documents |-> <<>>]

research_update(old, generated) == [draft_answer |-> _research_step(old, generated)]

\* the dict returned by _verification_step
verification_update(report) == [verification_report |-> report]

MutEdgeResearchAgain == "research"

\* workflow.add_edge("research", "verify")
EdgeAfterResearch == "verify"

MutDecideEndless(report) == "re_research"

_decide_next_step(report) ==
  IF InReport("Supported: NO", report) \/ InReport("Relevant: NO", report) THEN "re_research" ELSE "end"

\* ResearchAgent.generate: "\n\n".join of the page contents, in order
Separator == <<"\n", "\n">>

RECURSIVE context_of(_)
context_of(ds) ==
  IF ds = <<>> THEN <<>>
  ELSE IF Len(ds) = 1 THEN ds[1].page_content
  ELSE ds[1].page_content \o Separator \o context_of(Tail(ds))

\* the number of self.llm.invoke calls one generate makes, whether the call
\* raised or not: the except clause re-raises at once
MutRetryOnce(raised) == IF raised THEN 2 ELSE 1

llm_attempts(raised) == 1

\* ResearchAgent.generate, once the model has answered with `content`
generate(content) == IF content # "" THEN sanitize_response(content) ELSE CannotAnswer

\* ------------------------------------------------------------------------
\* Exceptions and results
\* ------------------------------------------------------------------------
Exception(type, msg) == [type |-> type, msg |-> msg]

\* str(e)
StrOf(e) == e.msg

GenerationError == Exception("RuntimeError", "Failed to generate answer due to a model error.")

ClassificationError == Exception("ClassificationFailure", "ClassificationFailure: relevance check failed")

VerificationError == Exception("VerificationFailure", "VerificationFailure: verification failed")

GraphRecursionError == Exception("GraphRecursionError", "Recursion limit reached without hitting a stop condition")

UnboundLocalError == Exception("UnboundLocalError", "local variable 'verification_report' referenced before assignment")

ModelError == Exception("APIError", "model call failed")

NoReport == [kind |-> "unbound", text |-> <<>>]

NoneReport == [kind |-> "none", text |-> <<>>]

TextReport(r) == [kind |-> "text", text |-> r]

NoResult == [returned |-> FALSE, success |-> FALSE, answer |-> "", sources |-> <<>>, verification_report |-> NoneReport, error |-> ""]

Failure(msg) == [returned |-> TRUE, success |-> FALSE, answer |-> "", sources |-> <<>>, verification_report |-> NoneReport, error |-> msg]

Success(a, src, rep) == [returned |-> TRUE, success |-> TRUE, answer |-> a, sources |-> src, verification_report |-> rep, error |-> ""]

MutGenericError(e) == Failure("An error occurred")

\* process_query's except clause: {"success": False, "error": str(e)}
Caught(e) == Failure(StrOf(e))

NoPipelineResult == [returned |-> FALSE, draft_answer |-> "", verification_report |-> <<>>]

\* ------------------------------------------------------------------------
\* process_query helpers (query_processor.py)
\* ------------------------------------------------------------------------
\* the queries put to the processor, and the word tests of detect_intent
Queries == {"tell me about the first topic", "show examples", "show code", "overview"}

ShortQueries == {"show examples", "show code", "overview"}

ExampleQueries == {"show examples"}

CodeQueries == {"show code"}

MetadataQueries == {"overview"}

\* ConversationManager.last_question: set by add_interaction, "" at first
last_question(h) == IF h = <<>> THEN "" ELSE h[Len(h)].question

\* ConversationManager.detect_intent, the "type" of the returned dict
MutIntentIgnoresLast(q, last) ==
  IF q \in ExampleQueries THEN "follow_up_examples"
  ELSE IF q \in CodeQueries THEN "follow_up_code"
  ELSE IF q \in MetadataQueries THEN "document_metadata"
  ELSE "general"

detect_intent(q, last) ==
  IF q \in ShortQueries /\ last # "" /\ q \in ExampleQueries THEN "follow_up_examples"
  ELSE IF q \in ShortQueries /\ last # "" /\ q \in CodeQueries THEN "follow_up_code"
  ELSE IF q \in MetadataQueries THEN "document_metadata"
  ELSE "general"

requires_context(it) == it # "document_metadata"

get_context(h) == IF h = <<>> THEN "No previous conversation." ELSE "## Recent Conversation"

\* conversation_context handed to the retriever; "" stands for None
conversation_context(it, h) == IF requires_context(it) THEN get_context(h) ELSE ""

NumVariants(it, h) == Len(VariantsTried(it, conversation_context(it, h) # ""))

\* str.strip() on a document's content
RECURSIVE LStrip(_)
LStrip(s) == IF s # <<>> /\ Head(s) = " " THEN LStrip(Tail(s)) ELSE s

RECURSIVE RStrip(_)
RStrip(s) == IF s # <<>> /\ s[Len(s)] = " " THEN RStrip(SubSeq(s, 1, Len(s) - 1)) ELSE s

Strip(s) == RStrip(LStrip(s))

SourcesShown == 5

MutNoSources(d) == <<>>

\* format_source_documents(docs[:5])
format_source_documents(d) ==
  [i \in 1..Min(SourcesShown, Len(d)) |-> [document |-> d[i].source, excerpt |-> Strip(d[i].page_content)]]

\* _create_helpful_response: a line of 11..99 characters ending in ':' among
\* the first three documents is a topic (contents here are single lines)
TopicDocs == 3

HasTopic(doc) == Len(doc.page_content) > 10 /\ Len(doc.page_content) < 100 /\ Lower(doc.page_content)[Len(doc.page_content)] = ":"

_create_helpful_response(d, original_answer) ==
  IF \E i \in 1..Min(TopicDocs, Len(d)) : HasTopic(d[i]) THEN HelpfulAnswer ELSE original_answer

\* lines 416-418
FinalAnswer(a, d) == IF HasDontHave(a) /\ d # <<>> THEN _create_helpful_response(d, a) ELSE a

HistoryMax == 5

Interaction(a, it) == [question |-> "query", full_answer |-> a, query_type |-> it]

\* ConversationManager.add_interaction on history
MutDropNewest(h, a, it) == IF Len(h) >= HistoryMax THEN h ELSE Append(h, Interaction(a, it))

add_interaction(h, a, it) ==
  IF Len(Append(h, Interaction(a, it))) > HistoryMax THEN Tail(Append(h, Interaction(a, it))) ELSE Append(h, Interaction(a, it))

\* ConversationManager.clear_history on history
clear_history(h) == <<>>

PriorInteraction == Interaction("d1", "general")

\* ------------------------------------------------------------------------
\* RetrSpec: the retriever on every combination of source outcomes
\* ------------------------------------------------------------------------
PipelineIdle ==
  /\ pc = "idle" /\ query = "" /\ intent_type = "general" /\ use_agentic = TRUE /\ retrievers = <<"vector">>
  /\ history = <<>> /\ docs = <<>> /\ documents = <<>> /\ draft_answer = "" /\ verification_report = <<>>
  /\ is_relevant = FALSE /\ steps = 0 /\ answer = UNBOUND /\ report_out = NoReport
  /\ pipeline_result = NoPipelineResult /\ result = NoResult
  /\ classification = "UNSET" /\ relevance_calls = 0 /\ research_calls = 0 /\ verify_calls = 0
  /\ last_node = NONE /\ supported_no = 0 /\ last_generated = NONE /\ error_stage = NONE
  /\ retrieval_calls = 0 /\ retrieval_failed = FALSE /\ research_input = <<>>
  /\ llm_calls = 0 /\ prompt_context = <<>>

\* the chat page before anything was submitted
NoEntries == [k \in {} |-> <<>>]

ChatIdle ==
  /\ messages = <<>> /\ source_docs = NoEntries /\ verification_reports = NoEntries
  /\ last_processed_query = "" /\ submissions = 0 /\ submitted = "" /\ pq_calls = 0 /\ ignored = 0

ConvIdle == added = <<>> /\ adds = 0

\* a Qdrant collection: absent, or present with its points
Absent == [exists |-> FALSE, points |-> {}]

Present(points) == [exists |-> TRUE, points |-> points]

NoBuild == [store |-> FALSE, status |-> "none"]

StoreIdle ==
  /\ collection = Absent /\ file_uploads = {} /\ build_result = NoBuild /\ build_append = FALSE
  /\ build_before = [collection |-> Absent, file_uploads |-> {}] /\ builds = 0

\* every component other than the one a specification runs
OthersIdle == ChatIdle /\ vector_store_exists = FALSE /\ ConvIdle /\ StoreIdle

RetrInit ==
  /\ OthersIdle
  /\ r_pc = "call"
  /\ r_retrievers \in RetrieverLists
  /\ \E nv \in 1..2 : r_outs \in RetrWorlds(r_retrievers, nv)
  /\ r_fused = <<>> /\ r_raised = FALSE /\ r_calls = {}
  /\ PipelineIdle

RetrCall ==
  /\ r_pc = "call"
  /\ r_raised' = raises(r_retrievers, r_outs)
  /\ r_fused' = IF r_raised' THEN <<>> ELSE _get_relevant_documents(r_retrievers, r_outs)
  /\ r_calls' = source_calls(r_retrievers, r_outs)
  /\ r_pc' = "done"
  /\ UNCHANGED <<r_retrievers, r_outs, pvars, hvars, ovars, gvars, xvars>>

RetrNext == RetrCall

RetrSpec == RetrInit /\ [][RetrNext]_vars

\* ------------------------------------------------------------------------
\* Spec: one process_query call
\* ------------------------------------------------------------------------
RetrIdle == r_pc = "idle" /\ r_retrievers = <<"vector">> /\ r_outs = <<>> /\ r_fused = <<>> /\ r_raised = FALSE /\ r_calls = {}

Init ==
  /\ RetrIdle
  /\ OthersIdle
  /\ pc = "start"
  /\ history \in {<<>>, <<PriorInteraction>>}
  /\ query \in Queries
  /\ intent_type = detect_intent(query, last_question(history))
  /\ use_agentic \in BOOLEAN
  /\ retrievers \in RetrieverLists
  /\ docs = <<>> /\ documents = <<>> /\ draft_answer = "" /\ verification_report = <<>>
  /\ is_relevant = FALSE /\ steps = 0 /\ answer = UNBOUND /\ report_out = NoReport
  /\ pipeline_result = NoPipelineResult /\ result = NoResult
  /\ classification = "UNSET" /\ relevance_calls = 0 /\ research_calls = 0 /\ verify_calls = 0
  /\ last_node = NONE /\ supported_no = 0 /\ last_generated = NONE /\ error_stage = NONE
  /\ retrieval_calls = 0 /\ retrieval_failed = FALSE /\ research_input = <<>>
  /\ llm_calls = 0 /\ prompt_context = <<>>

\* the Supported judgment a report states (explicit label, else UNKNOWN)
SupportedOf(report) ==
  IF InReport("Supported: YES", report) THEN "YES" ELSE IF InReport("Supported: NO", report) THEN "NO" ELSE "UNKNOWN"

RelevantOf(report) ==
  IF InReport("Relevant: YES", report) THEN "YES" ELSE IF InReport("Relevant: NO", report) THEN "NO" ELSE "UNKNOWN"

\* an exception leaves the graph, full_pipeline re-raises it and
\* process_query's except clause turns it into the returned dict
Raise(e, stage) ==
  /\ result' = Caught(e)
  /\ error_stage' = stage
  /\ pc' = "returned"

\* initialize_qa_chain returned None
NotReady ==
  /\ pc = "start"
  /\ result' = Failure("Knowledge base not ready")
  /\ pc' = "returned"
  /\ UNCHANGED <<rvars, query, intent_type, use_agentic, retrievers, history, docs, documents, draft_answer, verification_report, is_relevant, steps, answer, report_out, pipeline_result, hvars, ovars, gvars, xvars>>

\* process_query up to the branch on the intent: retriever.invoke(query)
Retrieve ==
  /\ pc = "start"
  /\ \E w \in Worlds(retrievers, NumVariants(intent_type, history), RunDocs, MaxRunResults) :
       /\ docs' = _get_relevant_documents(retrievers, w)
       /\ retrieval_failed' = every_call_raised(retrievers, w)
       /\ pc' = IF intent_type = "document_metadata" /\ docs' # <<>> THEN "metadata" ELSE IF use_agentic THEN "pipeline" ELSE "classic"
  /\ retrieval_calls' = retrieval_calls + 1
  /\ UNCHANGED <<rvars, query, intent_type, use_agentic, retrievers, history, documents, draft_answer, verification_report, is_relevant, steps, answer, report_out, pipeline_result, result, hvars, research_input, gvars, xvars>>

\* answer = self._handle_metadata_query(query, docs); verification_report
\* is not assigned on this branch
HandleMetadata ==
  /\ pc = "metadata"
  /\ answer' = OverviewAnswer
  /\ pc' = "tail"
  /\ UNCHANGED <<rvars, query, intent_type, use_agentic, retrievers, history, docs, documents, draft_answer, verification_report, is_relevant, steps, report_out, pipeline_result, result, hvars, ovars, gvars, xvars>>

\* the classic branch: one model call
Classic ==
  /\ pc = "classic"
  /\ \E content \in LLMContents : answer' = content
  /\ report_out' = NoneReport
  /\ pc' = "tail"
  /\ UNCHANGED <<rvars, query, intent_type, use_agentic, retrievers, history, docs, documents, draft_answer, verification_report, is_relevant, steps, pipeline_result, result, hvars, ovars, gvars, xvars>>

ClassicFails ==
  /\ pc = "classic"
  /\ Raise(ModelError, "classic")
  /\ UNCHANGED <<rvars, query, intent_type, use_agentic, retrievers, history, docs, documents, draft_answer, verification_report, is_relevant, steps, answer, report_out, pipeline_result, classification, relevance_calls, research_calls, verify_calls, last_node, supported_no, last_generated, ovars, gvars, xvars>>

\* full_pipeline up to compiled_workflow.invoke(initial_state)
FullPipelineInit ==
  /\ pc = "pipeline"
  /\ \E w \in Worlds(retrievers, NumVariants(intent_type, history), RunDocs, MaxRunResults) :
       /\ documents' = _get_relevant_documents(retrievers, w)
       /\ retrieval_failed' = (retrieval_failed /\ every_call_raised(retrievers, w))
  /\ draft_answer' = "" /\ verification_report' = <<>> /\ is_relevant' = FALSE
  /\ steps' = 0
  /\ pc' = "check_relevance"
  /\ retrieval_calls' = retrieval_calls + 1
  /\ UNCHANGED <<rvars, query, intent_type, use_agentic, retrievers, history, docs, answer, report_out, pipeline_result, result, hvars, research_input, gvars, xvars>>

\* node check_relevance and its conditional edge
CheckRelevance ==
  /\ pc = "check_relevance" /\ steps < RecursionLimit
  /\ \E c \in Classifications :
       /\ classification' = c
       /\ is_relevant' = _check_relevance_step(c, draft_answer).is_relevant
       /\ draft_answer' = _check_relevance_step(c, draft_answer).draft_answer
  /\ pc' = IF _decide_after_relevance_check(is_relevant') = "relevant" THEN "research" ELSE "end"
  /\ relevance_calls' = relevance_calls + 1
  /\ steps' = steps + 1
  /\ last_node' = "check_relevance"
  /\ UNCHANGED <<rvars, query, intent_type, use_agentic, retrievers, history, docs, documents, verification_report, answer, report_out, pipeline_result, result, research_calls, verify_calls, supported_no, last_generated, error_stage, ovars, gvars, xvars>>

CheckRelevanceFails ==
  /\ pc = "check_relevance" /\ steps < RecursionLimit
  /\ relevance_calls' = relevance_calls + 1
  /\ steps' = steps + 1
  /\ last_node' = "check_relevance"
  /\ Raise(ClassificationError, "check_relevance")
  /\ UNCHANGED <<rvars, query, intent_type, use_agentic, retrievers, history, docs, documents, draft_answer, verification_report, is_relevant, answer, report_out, pipeline_result, classification, research_calls, verify_calls, supported_no, last_generated, ovars, gvars, xvars>>

\* node research and the edge research -> verify
Research ==
  /\ pc = "research" /\ steps < RecursionLimit
  /\ \E content \in LLMContents :
       /\ last_generated' = generate(content)
       /\ draft_answer' = merge(research_update(draft_answer, generate(content)), "draft_answer", draft_answer)
       /\ documents' = merge(research_update(draft_answer, generate(content)), "documents", documents)
       /\ verification_report' = merge(research_update(draft_answer, generate(content)), "verification_report", verification_report)
       /\ is_relevant' = merge(research_update(draft_answer, generate(content)), "is_relevant", is_relevant)
  /\ research_input' = research_documents(documents)
  /\ prompt_context' = context_of(research_input')
  /\ research_calls' = research_calls + 1
  /\ steps' = steps + 1
  /\ last_node' = "research"
  /\ llm_calls' = llm_calls + llm_attempts(FALSE)
  /\ pc' = EdgeAfterResearch
  /\ UNCHANGED <<rvars, query, intent_type, use_agentic, retrievers, history, docs, answer, report_out, pipeline_result, result, classification, relevance_calls, verify_calls, supported_no, error_stage, retrieval_calls, retrieval_failed, xvars>>

\* self.llm.invoke raised: RuntimeError from ResearchAgent.generate
ResearchFails ==
  /\ pc = "research" /\ steps < RecursionLimit
  /\ research_calls' = research_calls + 1
  /\ steps' = steps + 1
  /\ last_node' = "research"
  /\ research_input' = research_documents(documents)
  /\ prompt_context' = context_of(research_input')
  /\ llm_calls' = llm_calls + llm_attempts(TRUE)
  /\ Raise(GenerationError, "research")
  /\ UNCHANGED <<rvars, query, intent_type, use_agentic, retrievers, history, docs, documents, draft_answer, verification_report, is_relevant, answer, report_out, pipeline_result, classification, relevance_calls, verify_calls, supported_no, last_generated, retrieval_calls, retrieval_failed, xvars>>

\* node verify and its conditional edge
Verify ==
  /\ pc = "verify" /\ steps < RecursionLimit
  /\ \E report \in Reports :
       /\ verification_report' = merge(verification_update(report), "verification_report", verification_report)
       /\ documents' = merge(verification_update(report), "documents", documents)
       /\ draft_answer' = merge(verification_update(report), "draft_answer", draft_answer)
       /\ is_relevant' = merge(verification_update(report), "is_relevant", is_relevant)
       /\ supported_no' = supported_no + (IF SupportedOf(report) = "NO" THEN 1 ELSE 0)
       /\ pc' = IF _decide_next_step(verification_report') = "re_research" THEN "research" ELSE "end"
  /\ verify_calls' = verify_calls + 1
  /\ steps' = steps + 1
  /\ last_node' = "verify"
  /\ UNCHANGED <<rvars, query, intent_type, use_agentic, retrievers, history, docs, answer, report_out, pipeline_result, result, classification, relevance_calls, research_calls, last_generated, error_stage, ovars, gvars, xvars>>

VerifyFails ==
  /\ pc = "verify" /\ steps < RecursionLimit
  /\ verify_calls' = verify_calls + 1
  /\ steps' = steps + 1
  /\ last_node' = "verify"
  /\ Raise(VerificationError, "verify")
  /\ UNCHANGED <<rvars, query, intent_type, use_agentic, retrievers, history, docs, documents, draft_answer, verification_report, is_relevant, answer, report_out, pipeline_result, classification, relevance_calls, research_calls, supported_no, last_generated, ovars, gvars, xvars>>

\* the graph has run RecursionLimit super-steps and a node is still due
RecursionAbort ==
  /\ pc \in {"check_relevance", "research", "verify"} /\ steps >= RecursionLimit
  /\ Raise(GraphRecursionError, "graph")
  /\ UNCHANGED <<rvars, query, intent_type, use_agentic, retrievers, history, docs, documents, draft_answer, verification_report, is_relevant, steps, answer, report_out, pipeline_result, classification, relevance_calls, research_calls, verify_calls, last_node, supported_no, last_generated, ovars, gvars, xvars>>

\* the graph reached END: full_pipeline builds its result (retrieval_scores
\* is empty, EnhancedHybridRetriever has no get_detailed_scores, so the
\* report is passed on as it is) and process_query reads it
PipelineReturn ==
  /\ pc = "end"
  /\ pipeline_result' = [returned |-> TRUE, draft_answer |-> draft_answer, verification_report |-> verification_report]
  /\ answer' = draft_answer
  /\ report_out' = TextReport(verification_report)
  /\ pc' = "tail"
  /\ UNCHANGED <<rvars, query, intent_type, use_agentic, retrievers, history, docs, documents, draft_answer, verification_report, is_relevant, steps, result, hvars, ovars, gvars, xvars>>

\* process_query lines 416-433: the helpful response, add_interaction and
\* the returned dict; reading the unassigned verification_report raises
Finish ==
  /\ pc = "tail"
  /\ answer' = FinalAnswer(answer, docs)
  /\ history' = add_interaction(history, FinalAnswer(answer, docs), intent_type)
  /\ result' = IF report_out.kind = "unbound" THEN Caught(UnboundLocalError)
               ELSE Success(FinalAnswer(answer, docs), format_source_documents(docs), report_out)
  /\ pc' = "returned"
  /\ UNCHANGED <<rvars, query, intent_type, use_agentic, retrievers, docs, documents, draft_answer, verification_report, is_relevant, steps, report_out, pipeline_result, hvars, ovars, gvars, xvars>>

Next ==
  \/ NotReady
  \/ Retrieve
  \/ HandleMetadata
  \/ Classic
  \/ ClassicFails
  \/ FullPipelineInit
  \/ CheckRelevance
  \/ CheckRelevanceFails
  \/ Research
  \/ ResearchFails
  \/ Verify
  \/ VerifyFails
  \/ RecursionAbort
  \/ PipelineReturn
  \/ Finish

Spec == Init /\ [][Next]_vars

\* ------------------------------------------------------------------------
\* ChatSpec: the chat input handler and the two clear buttons of app.py
\* (one action per script run that changes the session state; a Clear All
\* whose store or database call raises changes nothing)
\* ------------------------------------------------------------------------
Prompts == {"q1", "q2"}

Message(role, content) == [role |-> role, content |-> content]

\* what the chat handler gets from process_query: a success dict with
\* sources and a verification report ("" stands for None or empty), a
\* failure dict, or an exception
ProcessOutcomes ==
  {[kind |-> "success", sources |-> src, report |-> rep] : src \in {<<>>, <<"doc1">>}, rep \in {"", "report"}}
    \cup {[kind |-> "failure", sources |-> <<>>, report |-> ""], [kind |-> "raise", sources |-> <<>>, report |-> ""]}

\* if prompt != st.session_state.last_processed_query
MutAlwaysNew(prompt, last) == TRUE

is_new_prompt(prompt, last) == prompt # last

\* message_index = len(st.session_state.messages), taken before the
\* assistant message is appended
MutIndexOfLast(msgs) == Len(msgs) - 1

message_index(msgs) == Len(msgs)

\* dict[key] = value
Store(dict, key, value) == [k \in DOMAIN dict \cup {key} |-> IF k = key THEN value ELSE dict[k]]

ChatInit ==
  /\ RetrIdle /\ PipelineIdle /\ ConvIdle /\ StoreIdle
  /\ ChatIdle
  /\ vector_store_exists \in BOOLEAN

\* a prompt arrives from st.chat_input
Submit ==
  /\ submissions < MaxSubmits
  /\ \E prompt \in Prompts, o \in ProcessOutcomes :
       /\ submitted' = prompt
       /\ IF ~is_new_prompt(prompt, last_processed_query)
          THEN /\ ignored' = ignored + 1
               /\ UNCHANGED <<messages, source_docs, verification_reports, last_processed_query, pq_calls>>
          ELSE /\ last_processed_query' = prompt
               /\ ignored' = ignored
               /\ pq_calls' = IF vector_store_exists THEN pq_calls + 1 ELSE pq_calls
               /\ IF vector_store_exists /\ o.kind = "success"
                  THEN /\ messages' = Append(Append(messages, Message("user", prompt)), Message("assistant", "answer"))
                       /\ source_docs' = Store(source_docs, message_index(Append(messages, Message("user", prompt))), o.sources)
                       /\ verification_reports' =
                            IF o.report # "" THEN Store(verification_reports, message_index(Append(messages, Message("user", prompt))), o.report)
                            ELSE verification_reports
                  ELSE /\ messages' = Append(messages, Message("user", prompt))
                       /\ UNCHANGED <<source_docs, verification_reports>>
  /\ submissions' = submissions + 1
  /\ UNCHANGED <<rvars, pvars, hvars, ovars, gvars, kvars, svars, vector_store_exists>>

\* the Clear Chat History button
ClearChatHistory ==
  /\ messages' = <<>> /\ source_docs' = NoEntries /\ verification_reports' = NoEntries
  /\ UNCHANGED <<rvars, pvars, hvars, ovars, gvars, kvars, svars, last_processed_query, vector_store_exists, submissions, submitted, pq_calls, ignored>>

\* the Clear All button
ClearAll ==
  /\ vector_store_exists' = FALSE
  /\ messages' = <<>> /\ source_docs' = NoEntries /\ verification_reports' = NoEntries
  /\ UNCHANGED <<rvars, pvars, hvars, ovars, gvars, kvars, svars, last_processed_query, submissions, submitted, pq_calls, ignored>>

\* an upload or a scrape succeeded
ContentAdded ==
  /\ ~vector_store_exists
  /\ vector_store_exists' = TRUE
  /\ UNCHANGED <<rvars, pvars, hvars, ovars, gvars, kvars, svars, messages, source_docs, verification_reports, last_processed_query, submissions, submitted, pq_calls, ignored>>

ChatNext == Submit \/ ClearChatHistory \/ ClearAll \/ ContentAdded

ChatSpec == ChatInit /\ [][ChatNext]_vars

\* ------------------------------------------------------------------------
\* ConvSpec: add_interaction and clear_history on one ConversationManager
\* ------------------------------------------------------------------------
Answers == {"d1", "d2"}

ConvInit == RetrIdle /\ PipelineIdle /\ ChatIdle /\ vector_store_exists = FALSE /\ StoreIdle /\ ConvIdle

AddInteraction ==
  /\ adds < MaxAdds
  /\ \E a \in Answers :
       /\ history' = add_interaction(history, a, "general")
       /\ added' = Append(added, Interaction(a, "general"))
  /\ adds' = adds + 1
  /\ UNCHANGED <<rvars, pc, query, intent_type, use_agentic, retrievers, docs, documents, draft_answer, verification_report, is_relevant, steps, answer, report_out, pipeline_result, result, hvars, ovars, gvars, uvars, svars>>

ClearHistory ==
  /\ history' = clear_history(history)
  /\ added' = <<>>
  /\ UNCHANGED <<rvars, pc, query, intent_type, use_agentic, retrievers, docs, documents, draft_answer, verification_report, is_relevant, steps, answer, report_out, pipeline_result, result, hvars, ovars, gvars, uvars, svars, adds>>

ConvNext == AddInteraction \/ ClearHistory

ConvSpec == ConvInit /\ [][ConvNext]_vars

\* ------------------------------------------------------------------------
\* StoreSpec: build_vector_store_from_pdfs (vector_store.py) on the data a
\* user has stored.  A call's environment: whether Qdrant and MongoDB answer
\* and which chunks the uploaded files give.
\* ------------------------------------------------------------------------
Chunks == {"old", "new"}

Files == {"old.pdf"}

\* clear_all_data: deletes the collection when it can be fetched; every
\* error is swallowed
clear_all_data(coll, qdrant_ok) == IF qdrant_ok /\ coll.exists THEN Absent ELSE coll

\* db_manager.clear_user_data: delete_many, errors swallowed
clear_user_data(ups, mongo_ok) == IF mongo_ok THEN {} ELSE ups

\* get_qdrant_vector_store: the collection afterwards (created empty when it
\* is not there); with ~store_ok it raises and the collection stays
get_qdrant_vector_store(coll, store_ok) == IF store_ok /\ ~coll.exists THEN Present({}) ELSE coll

Failed == [store |-> FALSE, status |-> "failed"]

NoDocuments == [store |-> FALSE, status |-> "no_documents"]

AddedResult == [store |-> TRUE, status |-> "added"]

\* the data after the first statements of the function: replace mode clears
\* Qdrant and MongoDB before anything else is tried
cleared(coll, ups, append, qdrant_ok, mongo_ok) ==
  IF append THEN [collection |-> coll, file_uploads |-> ups]
  ELSE [collection |-> clear_all_data(coll, qdrant_ok), file_uploads |-> clear_user_data(ups, mongo_ok)]

\* the rest of the function on the data d left by the first statements;
\* log_file_upload is called with keywords it does not accept, the
\* TypeError is swallowed and no upload record is written
build_rest(d, store_ok, save_ok, chunks, add_ok) ==
  IF ~store_ok THEN [collection |-> d.collection, file_uploads |-> d.file_uploads, result |-> Failed]
  ELSE IF ~save_ok THEN [collection |-> get_qdrant_vector_store(d.collection, store_ok), file_uploads |-> d.file_uploads, result |-> Failed]
  ELSE IF chunks = {} THEN [collection |-> get_qdrant_vector_store(d.collection, store_ok), file_uploads |-> d.file_uploads, result |-> NoDocuments]
  ELSE IF ~add_ok THEN [collection |-> get_qdrant_vector_store(d.collection, store_ok), file_uploads |-> d.file_uploads, result |-> Failed]
  ELSE [collection |-> Present(get_qdrant_vector_store(d.collection, store_ok).points \cup chunks), file_uploads |-> d.file_uploads, result |-> AddedResult]

build_vector_store_from_pdfs(coll, ups, append, qdrant_ok, mongo_ok, store_ok, save_ok, chunks, add_ok) ==
  build_rest(cleared(coll, ups, append, qdrant_ok, mongo_ok), store_ok, save_ok, chunks, add_ok)

StoreInit ==
  /\ RetrIdle /\ PipelineIdle /\ ChatIdle /\ vector_store_exists = FALSE /\ ConvIdle
  /\ collection \in {Absent} \cup {Present(ps) : ps \in SUBSET {"old"}}
  /\ file_uploads \in SUBSET Files
  /\ build_result = NoBuild /\ build_append = FALSE
  /\ build_before = [collection |-> collection, file_uploads |-> file_uploads]
  /\ builds = 0

BuildFromPdfs ==
  /\ builds < MaxBuilds
  /\ \E append, qdrant_ok, mongo_ok, store_ok, save_ok, add_ok \in BOOLEAN, chunks \in SUBSET {"new"} :
       /\ collection' = build_vector_store_from_pdfs(collection, file_uploads, append, qdrant_ok, mongo_ok, store_ok, save_ok, chunks, add_ok).collection
       /\ file_uploads' = build_vector_store_from_pdfs(collection, file_uploads, append, qdrant_ok, mongo_ok, store_ok, save_ok, chunks, add_ok).file_uploads
       /\ build_result' = build_vector_store_from_pdfs(collection, file_uploads, append, qdrant_ok, mongo_ok, store_ok, save_ok, chunks, add_ok).result
       /\ build_append' = append
  /\ build_before' = [collection |-> collection, file_uploads |-> file_uploads]
  /\ builds' = builds + 1
  /\ UNCHANGED <<rvars, pvars, hvars, ovars, gvars, uvars, kvars>>

StoreNext == BuildFromPdfs

StoreSpec == StoreInit /\ [][StoreNext]_vars

\* ------------------------------------------------------------------------
\* Claims about the retriever (RetrSpec)
\* ------------------------------------------------------------------------
\* the specification's identity of a passage: normalised content + sourceId
Fingerprint(doc) == <<Normalize(doc.page_content), doc.source>>

FailsAlways(r) == \A v \in 1..Len(r_outs) : ~r_outs[v][r].ok

\* retriever r answers every variant and at least one answer is non-empty
AnswersNonEmpty(r) ==
  /\ \A v \in 1..Len(r_outs) : r_outs[v][r].ok
  /\ \E v \in 1..Len(r_outs) : r_outs[v][r].docs # <<>>

\* the passages retriever r returned during the call
ResultsOf(r) == {r_outs[v][r].docs[j] : <<v, j>> \in {x \in (1..Len(r_outs)) \X (1..(AllEnough + 1)) : x[2] <= Len(r_outs[x[1]][r].docs)}}

\* one of the two retrievers of the list raises on every call and the other
\* one (index 3 - i) returns a non-empty result
PartialFailure(i) ==
  /\ Len(r_retrievers) = 2
  /\ FailsAlways(r_retrievers[i])
  /\ AnswersNonEmpty(r_retrievers[3 - i])

\* C11: when one of two retrievers raises on every call and the other one
\* returns a non-empty result, the call raises nothing and returns a
\* non-empty list; the list is exactly what the other retriever alone gives,
\* all its members are results of the other retriever, and every result of
\* the other retriever is in it by its content (unless the list is full);
\* this holds whether the failing retriever is first or second in the list.
C11_Theorem ==
  r_pc = "done" =>
    \A i \in 1..2 : PartialFailure(i) =>
      /\ ~r_raised
      /\ r_fused # <<>>
      /\ r_fused = _get_relevant_documents(<<r_retrievers[3 - i]>>, r_outs)
      /\ \A j \in 1..Len(r_fused) : r_fused[j] \in ResultsOf(r_retrievers[3 - i])
      /\ \/ Len(r_fused) = AllEnough
         \/ \A d \in ResultsOf(r_retrievers[3 - i]) : \E j \in 1..Len(r_fused) : content_hash(r_fused[j]) = content_hash(d)

\* the first retriever of the list (BM25) raised on both variants, the second
\* one returned two passages and the call returned them
C11_Witness ==
  /\ r_pc = "done" /\ PartialFailure(1) /\ Len(r_outs) = 2
  /\ <<1, r_retrievers[1]>> \in r_calls /\ <<1, r_retrievers[2]>> \in r_calls
  /\ Len(r_fused) = 2

\* every retriever of the list raises on every variant
AllSourcesFail == \A v \in 1..Len(r_outs) : \A i \in 1..Len(r_retrievers) : ~r_outs[v][r_retrievers[i]].ok

\* C12: when every retriever raises on every query of the call, the call
\* returns the empty list and raises nothing to its caller.
C12_Theorem == r_pc = "done" /\ AllSourcesFail => r_fused = <<>> /\ ~r_raised

\* two retrievers were called on two variants, all four calls raised, and
\* the call returned
C12_Witness ==
  /\ r_pc = "done" /\ AllSourcesFail /\ Len(r_retrievers) = 2 /\ Len(r_outs) = 2
  /\ Cardinality(r_calls) = 4 /\ ~r_raised

\* the score the fusion rule gives: weight[s] / (r + 1) for 0-based rank r,
\* in units of 1/ScoreUnit so that every score is an integer; the weights
\* are equal
ScoreUnit == 5040

weight(r) == 1

rank_score(r, rank) == (weight(r) * ScoreUnit) \div (rank + 1)

\* 0-based ranks at which retriever r returned fingerprint fp for the query
RanksOf(fp, r) == {j - 1 : j \in {x \in 1..(AllEnough + 1) : r_outs[1][r].ok /\ x <= Len(r_outs[1][r].docs) /\ Fingerprint(r_outs[1][r].docs[x]) = fp}}

SetMin(S) == CHOOSE x \in S : \A y \in S : x <= y

SourceScore(fp, r) == IF RanksOf(fp, r) = {} THEN 0 ELSE rank_score(r, SetMin(RanksOf(fp, r)))

SetMax(S) == CHOOSE x \in S : \A y \in S : x >= y

\* the higher score plus half of the lower one (0 when only one source has it)
FusedScore(fp) ==
  IF Len(r_retrievers) = 1 THEN SourceScore(fp, r_retrievers[1])
  ELSE SetMax({SourceScore(fp, r_retrievers[1]), SourceScore(fp, r_retrievers[2])})
       + (SetMin({SourceScore(fp, r_retrievers[1]), SourceScore(fp, r_retrievers[2])}) \div 2)

\* the score a returned document carries (metadata "score"), if any
HasScore(doc) == "score" \in DOMAIN doc

\* a call with one query variant in which every retriever was invoked and
\* the results fit into the returned list
PlainCall ==
  /\ r_pc = "done" /\ Len(r_outs) = 1
  /\ Cardinality(r_calls) = Len(r_retrievers)
  /\ \A i \in 1..Len(r_retrievers) : Len(r_outs[1][r_retrievers[i]].docs) < VariantEnough

ReturnedFingerprints == {Fingerprint(d) : d \in UNION {ResultsOf(r_retrievers[i]) : i \in 1..Len(r_retrievers)}}

\* C14 as stated: every fingerprint returned by a source has exactly one
\* entry in the fused list, and that entry carries the score
\* weight[s]/(r+1), or the higher score plus 0.5 times the lower one when two
\* sources returned it.
C14_Original ==
  PlainCall =>
    \A fp \in ReturnedFingerprints :
      /\ Cardinality({j \in 1..Len(r_fused) : Fingerprint(r_fused[j]) = fp}) = 1
      /\ \A j \in 1..Len(r_fused) : Fingerprint(r_fused[j]) = fp => HasScore(r_fused[j]) /\ r_fused[j].score = FusedScore(fp)

\* position of the first retriever of the list that returned fp, and the
\* rank it gave
FirstSource(fp) == SetMin({i \in 1..Len(r_retrievers) : RanksOf(fp, r_retrievers[i]) # {}})

FirstRank(fp) == SetMin(RanksOf(fp, r_retrievers[FirstSource(fp)]))

\* C15 as stated: the returned list is in descending order of fused score,
\* and passages of equal score are in source priority order and then in rank
\* order.
C15_Original ==
  PlainCall =>
    \A i, j \in 1..Len(r_fused) : i < j =>
      \/ FusedScore(Fingerprint(r_fused[i])) > FusedScore(Fingerprint(r_fused[j]))
      \/ /\ FusedScore(Fingerprint(r_fused[i])) = FusedScore(Fingerprint(r_fused[j]))
         /\ \/ FirstSource(Fingerprint(r_fused[i])) < FirstSource(Fingerprint(r_fused[j]))
            \/ /\ FirstSource(Fingerprint(r_fused[i])) = FirstSource(Fingerprint(r_fused[j]))
               /\ FirstRank(Fingerprint(r_fused[i])) <= FirstRank(Fingerprint(r_fused[j]))

\* the k a caller may have in mind; _get_relevant_documents takes no k
RequestedK == 0..(AllEnough + 1)

\* everything the retrievers return to the variants of the call, in variant
\* order, and the list without repeated contents
RECURSIVE all_variant_docs(_, _, _)
all_variant_docs(rs, outs, v) ==
  IF v > Len(outs) THEN <<>> ELSE _retrieve_with_variant(rs, outs[v]) \o all_variant_docs(rs, outs, v + 1)

FullList == dedup_loop(<<<<>>, {}>>, all_variant_docs(r_retrievers, r_outs, 1))[1]

C17_Original ==
  r_pc = "done" => \A k \in RequestedK : k <= 0 => r_fused = <<>> /\ r_calls = {}

MaxIterations == 3

\* the specification's iteration counter: RESEARCH passes made so far
iteration == research_calls

\* every verification so far stated Supported: NO
AlwaysUnsupported == supported_no = verify_calls

\* the report states a NO judgment
JudgedNo(report) == SupportedOf(report) = "NO" \/ RelevantOf(report) = "NO"

\* the state right after a verify node and its edge
AfterVerify == last_node = "verify" /\ pc \in {"research", "end"}

\* C1 as stated: when the verifier reports supported=NO on every call and
\* maxIterations = 3, the draft generator is invoked exactly 3 times and the
\* run then goes to END instead of researching again.
C1_Original ==
  AlwaysUnsupported =>
    /\ research_calls <= MaxIterations
    /\ (AfterVerify /\ verify_calls = MaxIterations => pc = "end")

\* C2: when the relevance classifier returned NOT_RELEVANT the run goes from
\* check_relevance straight to END: one graph step, no research call and no
\* verification call, ever.
C2_Theorem ==
  classification = "NOT_RELEVANT" =>
    /\ research_calls = 0 /\ verify_calls = 0
    /\ steps = 1
    /\ pc \in {"end", "tail", "returned"}

C2_Witness == classification = "NOT_RELEVANT" /\ pc = "returned" /\ result.success

\* C3 as stated: after a verification, a NO judgment sends the run back to
\* RESEARCH while iteration < maxIterations and to END once iteration has
\* reached maxIterations; without a NO judgment the run goes to END.
C3_Original ==
  AfterVerify =>
    IF JudgedNo(verification_report)
    THEN (IF iteration < MaxIterations THEN pc = "research" ELSE pc = "end")
    ELSE pc = "end"

\* C4 as stated: the iteration counter (RESEARCH passes made) starts at 0
\* and never exceeds maxIterations.
C4_Original == iteration \in 0..MaxIterations

\* C6: the relevance check runs at most once and before any other stage;
\* research and verify alternate, every verify right after the research of
\* the same iteration; research is entered only after a relevant
\* check_relevance or after a verification that judged NO; once the graph
\* has ended no stage runs.
C6_Order ==
  /\ relevance_calls <= 1
  /\ (research_calls > 0 \/ verify_calls > 0) => relevance_calls = 1
  /\ last_node = "check_relevance" => research_calls = 0 /\ verify_calls = 0
  /\ last_node = "research" => research_calls = verify_calls + 1
  /\ last_node = "verify" => verify_calls = research_calls /\ verify_calls > 0
  /\ last_node = NONE => relevance_calls = 0 /\ research_calls = 0 /\ verify_calls = 0

C6_Step ==
  /\ relevance_calls' # relevance_calls => pc = "check_relevance" /\ last_node = NONE
  /\ research_calls' # research_calls =>
       \/ last_node = "check_relevance" /\ classification \in RelevantLabels
       \/ last_node = "verify" /\ JudgedNo(verification_report)
  /\ verify_calls' # verify_calls => last_node = "research" /\ research_calls = verify_calls + 1
  /\ pc \in {"end", "tail", "returned"} => UNCHANGED <<relevance_calls, research_calls, verify_calls, last_node, steps>>

C6_Theorem == []C6_Order /\ [][C6_Step]_vars

C6_Witness == pc = "returned" /\ result.success /\ research_calls = 2 /\ verify_calls = 2

\* C7: research is entered exactly when the classifier returned CAN_ANSWER
\* or PARTIAL; any other label ends the graph, and a classifier that raises
\* ends the run with an error result and no research.
C7_Theorem ==
  /\ research_calls > 0 => classification \in RelevantLabels
  /\ last_node = "check_relevance" => (pc = "research" <=> classification \in RelevantLabels)
  /\ error_stage = "check_relevance" =>
       /\ classification = "UNSET" /\ research_calls = 0
       /\ result.returned /\ ~result.success

C7_Witness == classification = "PARTIAL" /\ research_calls = 1 /\ last_node = "research"

\* the first verification stated Supported: NO, the second one Supported:
\* YES and Relevant: YES
FailThenPass ==
  /\ verify_calls = 2 /\ supported_no = 1
  /\ SupportedOf(verification_report) = "YES" /\ RelevantOf(verification_report) = "YES"

\* C8: when the first verification fails (supported=NO) and the second
\* passes (supported=YES, relevant=YES) the graph ends after exactly two
\* research passes and full_pipeline returns the draft of the second pass
\* together with the passing report.
C8_Theorem ==
  FailThenPass =>
    /\ research_calls = 2
    /\ pc \in {"end", "tail", "returned"}
    /\ pc # "end" =>
         /\ pipeline_result.returned
         /\ pipeline_result.draft_answer = last_generated
         /\ pipeline_result.verification_report = verification_report

C8_Witness == FailThenPass /\ pipeline_result.returned /\ pc = "returned" /\ result.success

\* C9 as stated: whenever relevance is NOT_RELEVANT the result handed to
\* the caller has the fixed fallback answer, no verification (verified =
\* false) and an empty citations list.
C9_Original ==
  result.returned /\ classification = "NOT_RELEVANT" =>
    /\ result.success
    /\ result.answer = FallbackAnswer
    /\ result.verification_report.text = <<>>
    /\ result.sources = <<>>

\* the stage an error message names
StageTag(msg) ==
  IF msg = "Failed to generate answer due to a model error." THEN "research"
  ELSE IF msg = "ClassificationFailure: relevance check failed" THEN "check_relevance"
  ELSE IF msg = "VerificationFailure: verification failed" THEN "verify"
  ELSE NONE

\* C10: when draft generation, relevance classification or verification
\* raises, that stage is the last one executed, full_pipeline returns
\* nothing, and the caller gets success = False with an error message that
\* names the failed stage.
C10_Theorem ==
  error_stage \in {"check_relevance", "research", "verify"} =>
    /\ pc = "returned" /\ last_node = error_stage
    /\ ~pipeline_result.returned
    /\ result.returned /\ ~result.success
    /\ StageTag(result.error) = error_stage

C10_Witness == error_stage = "research" /\ research_calls = 2 /\ result.returned

\* the query variants the retriever of this run sends to the sources
QueriesSent == VariantsTried(intent_type, conversation_context(intent_type, history) # "")

\* the query variants that follow from the query text alone
FreshQueries(q) == IF q \in MetadataQueries THEN <<"toc", "structure">> ELSE <<"query">>

\* the AgentState as full_pipeline builds it, before any node has run
BlankAgentState == draft_answer = "" /\ verification_report = <<>> /\ is_relevant = FALSE /\ steps = 0

UnrelatedResult == Success(FallbackAnswer, <<>>, TextReport(<<>>))

\* C19 as stated (retrieval failure against unrelated question): a run whose
\* retrievals failed on all sources never returns the user-visible result
\* of a question that is unrelated to the content.
C19_Original == result.returned /\ retrieval_failed /\ retrieval_calls = 2 => result # UnrelatedResult

\* C20 as stated: every entry into RESEARCH invokes the hybrid retriever
\* before the DraftGenerator.
C20_Original == [][research_calls' = research_calls + 1 => retrieval_calls' = retrieval_calls + 1]_vars

\* C20 amended: every entry into RESEARCH, retries included, invokes no
\* retriever; it calls the DraftGenerator once on the documents full_pipeline
\* retrieved before the graph started, leaves these documents unchanged,
\* counts one more research pass and goes to VERIFY unless the generator
\* raised.
C20_Theorem ==
  [][research_calls' # research_calls =>
       /\ research_calls' = research_calls + 1
       /\ retrieval_calls' = retrieval_calls
       /\ documents' = documents
       /\ research_input' = documents
       /\ steps' = steps + 1
       /\ pc' = "verify" \/ (result'.returned /\ error_stage' = "research")]_vars

\* the retry: a second research pass ran on the non-empty documents of the
\* two retrievals made before the graph started
C20_Witness ==
  /\ research_calls = 2 /\ retrieval_calls = 2 /\ pc = "verify"
  /\ documents # <<>> /\ research_input = documents

\* C21 as stated: a verification whose report states neither an explicit
\* Supported: YES nor an explicit Supported: NO (supported = UNKNOWN) is
\* followed by a retry, never by the end of the run.
C21_Original == AfterVerify /\ SupportedOf(verification_report) = "UNKNOWN" => pc = "research"

\* the verdict shown to the user
ParsedNo(report) == parse_verification_report(report).supported = "NO" \/ parse_verification_report(report).relevant = "NO"

\* C25 as stated: after every verification, the edge taken by
\* _decide_next_step agrees with parse_verification_report of the same
\* report: "end" goes with no parsed NO, "re_research" with a parsed NO.
C25_Original ==
  AfterVerify =>
    /\ pc = "end" => ~ParsedNo(verification_report)
    /\ pc = "research" => ParsedNo(verification_report)

\* a node of the graph is about to run
InGraph == pc \in {"check_relevance", "research", "verify"}

\* C23: a step of the graph never changes the question, the documents or
\* the retriever; check_relevance leaves verification_report alone and
\* touches draft_answer only when it finds the question irrelevant,
\* research leaves is_relevant and verification_report alone and drafts
\* from the unchanged documents, verify leaves draft_answer and is_relevant
\* alone.
C23_Theorem ==
  [][InGraph =>
       /\ query' = query /\ documents' = documents /\ retrievers' = retrievers
       /\ pc = "check_relevance" => verification_report' = verification_report /\ (is_relevant' => draft_answer' = draft_answer)
       /\ pc = "research" => is_relevant' = is_relevant /\ verification_report' = verification_report
       /\ pc = "research" /\ research_calls' # research_calls => research_input' = documents'
       /\ pc = "verify" => draft_answer' = draft_answer /\ is_relevant' = is_relevant]_vars

\* after a retry and its verification the state still holds the retrieved
\* documents, next to a draft and a report
C23_Witness ==
  /\ research_calls = 2 /\ verify_calls = 2 /\ last_node = "verify"
  /\ documents # <<>> /\ research_input = documents
  /\ draft_answer # "" /\ verification_report # <<>>

\* C24 as stated: a step in which process_query returns success=False
\* leaves the conversation history (and with it last_question) unchanged.
C24_Original == [][~result.returned /\ result'.returned /\ ~result'.success => history' = history]_vars

\* C26: every call of ResearchAgent.generate makes exactly one call of the
\* language model, with the page contents of its documents joined in the
\* order received; when that call raises, the run ends with the generator's
\* error, no second attempt is made and no draft is written.
C26_Theorem ==
  [][research_calls' # research_calls =>
       /\ research_calls' = research_calls + 1
       /\ llm_calls' = llm_calls + 1
       /\ prompt_context' = context_of(documents)
       /\ error_stage' = "research" =>
            /\ result'.returned /\ ~result'.success /\ result'.error = StrOf(GenerationError)
            /\ draft_answer' = draft_answer /\ last_generated' = last_generated]_vars

\* the model call of a retry raised: two generate calls, two model calls,
\* the context made of both documents in their order
C26_Witness ==
  /\ error_stage = "research" /\ research_calls = 2 /\ llm_calls = 2
  /\ Len(documents) = 2
  /\ prompt_context = documents[1].page_content \o Separator \o documents[2].page_content

\* ------------------------------------------------------------------------
\* Claims about the chat page (ChatSpec)
\* ------------------------------------------------------------------------
ChatState == <<messages, source_docs, verification_reports, last_processed_query, vector_store_exists, pq_calls>>

\* the step appended the user message and called process_query
Processed == Len(messages') > Len(messages) /\ pq_calls' = pq_calls + 1

\* C27 as stated: a submitted prompt is processed (user message appended,
\* process_query called) if and only if it differs from
\* last_processed_query; an equal prompt changes nothing; and nothing but a
\* submission changes last_processed_query.
C27_Original ==
  [][/\ submissions' # submissions => ((submitted' # last_processed_query) <=> Processed)
     /\ submissions' # submissions /\ submitted' = last_processed_query => ChatState' = ChatState
     /\ last_processed_query' # last_processed_query => submissions' # submissions]_vars

\* C27 amended: a submitted prompt that differs from last_processed_query
\* becomes last_processed_query and is appended as a user message, and
\* process_query is called for it exactly when vector_store_exists; a prompt
\* equal to last_processed_query changes nothing; and nothing but a
\* submission changes last_processed_query (no failed query, no Clear Chat
\* History, no Clear All).
C27_Theorem ==
  [][/\ submissions' # submissions /\ submitted' # last_processed_query =>
          /\ last_processed_query' = submitted'
          /\ Len(messages') > Len(messages)
          /\ messages'[Len(messages) + 1] = Message("user", submitted')
          /\ pq_calls' = IF vector_store_exists THEN pq_calls + 1 ELSE pq_calls
     /\ submissions' # submissions /\ submitted' = last_processed_query => ChatState' = ChatState
     /\ last_processed_query' # last_processed_query => submissions' # submissions]_vars

\* a prompt was processed, the chat was cleared, and the same prompt
\* submitted again was ignored
C27_Witness ==
  /\ submissions = 2 /\ pq_calls = 1 /\ ignored = 1 /\ messages = <<>>
  /\ submitted = last_processed_query

\* C30: every key of source_docs and of verification_reports is the index
\* of an assistant entry of messages, and every key of verification_reports
\* is a key of source_docs.
C30_Theorem ==
  /\ \A k \in DOMAIN source_docs \cup DOMAIN verification_reports :
       k + 1 \in 1..Len(messages) /\ messages[k + 1].role = "assistant"
  /\ DOMAIN verification_reports \subseteq DOMAIN source_docs

\* a failed query followed by a successful one: the only stored key is the
\* index of the assistant message, the third entry
C30_Witness ==
  /\ Len(messages) = 3 /\ messages[2].role = "user"
  /\ DOMAIN source_docs = {2} /\ DOMAIN verification_reports = {2}

\* ------------------------------------------------------------------------
\* Claims about the vector store build (StoreSpec)
\* ------------------------------------------------------------------------
\* C28 as stated: a build with append=False that returns no store (status
\* "failed" or "no_documents") leaves the points of the user's collection
\* and the upload records as they were when the build started.
C28_Original ==
  builds > 0 /\ ~build_append /\ build_result.status \in {"failed", "no_documents"} =>
    /\ collection.points = build_before.collection.points
    /\ file_uploads = build_before.file_uploads

\* ------------------------------------------------------------------------
\* Claims about the ConversationManager (ConvSpec)
\* ------------------------------------------------------------------------
\* the last n entries of a list
LastN(l, n) == SubSeq(l, Len(l) - Min(n, Len(l)) + 1, Len(l))

\* C29: after any sequence of add_interaction and clear_history calls,
\* history is the most recent min(n, 5) of the n interactions added since
\* the last clear_history, in arrival order, and never longer than 5.
C29_Theorem == history = LastN(added, HistoryMax) /\ Len(history) <= HistoryMax

\* six interactions were added without a clear: the oldest one is gone
C29_Witness ==
  /\ Len(added) = HistoryMax + 1 /\ Len(history) = HistoryMax
  /\ history[1] = added[2] /\ added[1] # added[2]

====
